---- MODULE Spec2Model ----
(***************************************************************************)
(* Model of manujajay/blockchain_starter.                                  *)
(*                                                                         *)
(*   src/app.py   the basic ledger: blocks carry an opaque data value,     *)
(*                add_block re-links and re-hashes the block it is given.  *)
(*   src/defi.py  the extended ledger: blocks carry a list of Transaction  *)
(*                objects and a proof; mine_pending_transactions mines and *)
(*                appends; get_balance_of_address replays the chain.       *)
(*                                                                         *)
(* Text is a sequence of character codes (what str(...).encode() yields).  *)
(* SHA-256 is idealised: the hex digest of a text is collision free, its   *)
(* two leading hex characters are a checksum of the text, so that the      *)
(* leading-zero test of mining is decided by the block's fields.           *)
(* Python objects that are compared or printed by identity (Transaction)   *)
(* live in a heap indexed by their address.                                *)
(***************************************************************************)
EXTENDS Bags, Integers, Sequences, FiniteSets, TLC

VARIABLES
    program,               \* what the run exercises: the ledger of "app" or of
                           \* "defi", a Block being mined ("mine"), the "pool"
    app_chain,             \* app.py   Blockchain.chain
    chain,                 \* defi.py  Blockchain.chain
    pending_transactions,  \* defi.py  Blockchain.pending_transactions
    heap,                  \* defi.py  the Transaction objects, by address
    tampered,              \* a block field was written from outside the ledger
    tx_list_ids,           \* defi.py  which list object each block's transactions
                           \* and the buffer are: [chain |-> <<ids>>, pending |-> id]
    candidate,             \* defi.py  a Block built by a caller, to be mined
    liquidity_pool,        \* defi.py  LendingPool.liquidity_pool
    last_call              \* the latest call on candidate or on the pool

vars == <<program, app_chain, chain, pending_transactions, heap, tampered,
          tx_list_ids, candidate, liquidity_pool, last_call>>

(***************************************************************************)
(* Bounds of the model, and the inputs the callers draw from.              *)
(***************************************************************************)
MaxChain == 3    \* blocks in the chain of app.py, genesis included
MaxPending == 2  \* transactions waiting in the buffer
MaxObjs == 3     \* Transaction objects alive, rewards included
MaxPool == 2000  \* the pool's counter stays within -MaxPool..MaxPool

\* int(time.time()) readings
TimeStamps == {1, 2}
Addresses == {"A", "B", "M"}
Miners == {"M"}
None == "None"
\* index values a caller of app.py gives its blocks
Indices == {0, 1, 7}
\* data values of the basic variant: "a", "1", "b1"
Datas == {<<97>>, <<49>>, <<98, 49>>}
\* the blocks callers build to mine them: index, proof to start from,
\* and the difficulties they pass to mine_block
CandidateIndices == {0, 1}
StartProofs == {0, 1, 5, 40}
Difficulties == {0, 1, 2}
\* the amounts passed to deposit and borrow; the code inspects no sign
PoolAmounts == {0 - 100, 500, 600, 1000}
\* the transfers callers submit: A pays B, B pays A, A pays itself
CallerTransactions ==
    {[sender |-> "A", recipient |-> "B", amount |-> 2],
     [sender |-> "B", recipient |-> "A", amount |-> 1],
     [sender |-> "A", recipient |-> "A", amount |-> 1]}

(***************************************************************************)
(* Text and digest.                                                        *)
(***************************************************************************)
RECURSIVE Str(_)
\* str(n) of a non-negative int: its decimal digits
Str(n) == IF n < 10 THEN <<48 + n>> ELSE Str(n \div 10) \o <<48 + (n % 10)>>

\* running checksum of a text, from accumulator h: each character c takes h
\* to (h * 7 + c) % 16, left to right.  7 * 7 is 1 modulo 16, so the result is
\* the sum of h and the characters, each weighted 7 or 1 by its distance from
\* the end
Checksum(h, s) ==
    LET n == Len(s)
        weight(k) == IF k % 2 = 0 THEN 1 ELSE 7
    IN  (h * weight(n) + BagCardinality([i \in 1..n |-> s[i] * weight(n - i)])) % 16

\* one lower-case hexadecimal character
HexChar(d) == IF d < 10 THEN 48 + d ELSE 87 + d

\* hashlib.sha256(value).hexdigest()
sha256_hexdigest(value) ==
    LET m == Checksum(5, value)
    IN  <<HexChar(m \div 4), HexChar(m % 4)>> \o value

\* '0' * n
Zeros(n) == [i \in 1..n |-> 48]

\* s[:n]
Prefix(s, n) == SubSeq(s, 1, IF n < Len(s) THEN n ELSE Len(s))

(***************************************************************************)
(* src/app.py                                                              *)
(***************************************************************************)
\* Block.calculate_hash(index, previous_hash, timestamp, data)
app_calculate_hash(index, previous_hash, timestamp, data) ==
    sha256_hexdigest(Str(index) \o previous_hash \o Str(timestamp) \o data)

\* Block(index, previous_hash, timestamp, data, hash)
app_Block(index, previous_hash, timestamp, data, hash) ==
    [index |-> index, previous_hash |-> previous_hash, timestamp |-> timestamp,
     data |-> data, hash |-> hash]

\* "Genesis Block" is abbreviated to "G"
app_create_genesis_block(ts) == app_Block(0, <<48>>, ts, <<71>>, <<48>>)

app_get_latest_block == app_chain[Len(app_chain)]

RECURSIVE app_is_chain_valid_from(_)
\* Blockchain.is_chain_valid of app.py: the loop "for i in range(1, len(self.chain))",
\* from i on; Python's chain[i] is app_chain[i + 1]
app_is_chain_valid_from(i) ==
    IF i >= Len(app_chain) THEN TRUE
    ELSE LET current_block == app_chain[i + 1]
             previous_block == app_chain[i]
         IN  IF current_block.hash #
                    app_calculate_hash(current_block.index, current_block.previous_hash,
                                       current_block.timestamp, current_block.data)
             THEN FALSE
             ELSE IF current_block.previous_hash # previous_block.hash
             THEN FALSE
             ELSE app_is_chain_valid_from(i + 1)

\* Blockchain.is_chain_valid of app.py
app_is_chain_valid == app_is_chain_valid_from(1)

\* add_block computing the hash before it sets previous_hash
add_block_hash_first(new_block) ==
    /\ program = "app"
    /\ Len(app_chain) < MaxChain
    /\ LET hashed == [new_block EXCEPT !.hash =
                         app_calculate_hash(new_block.index, new_block.previous_hash,
                                            new_block.timestamp, new_block.data)]
           linked == [hashed EXCEPT !.previous_hash = app_get_latest_block.hash]
       IN  app_chain' = Append(app_chain, linked)
    /\ UNCHANGED <<tx_list_ids, candidate, last_call, liquidity_pool, program, chain, pending_transactions, heap, tampered>>

\* Blockchain.add_block(new_block)
add_block(new_block) ==
    /\ program = "app"
    /\ Len(app_chain) < MaxChain
    /\ LET linked == [new_block EXCEPT !.previous_hash = app_get_latest_block.hash]
           hashed == [linked EXCEPT !.hash =
                         app_calculate_hash(linked.index, linked.previous_hash,
                                            linked.timestamp, linked.data)]
       IN  app_chain' = Append(app_chain, hashed)
    /\ UNCHANGED <<tx_list_ids, candidate, last_call, liquidity_pool, program, chain, pending_transactions, heap, tampered>>

AddBlock ==
    \E index \in Indices, ts \in TimeStamps, data \in Datas,
       ph \in {<<>>, <<48>>}, h \in {<<>>, <<48>>} :
        add_block(app_Block(index, ph, ts, data, h))

(***************************************************************************)
(* src/defi.py                                                             *)
(***************************************************************************)
mining_reward == 50
difficulty == 2

\* Transaction(sender, recipient, amount)
Transaction(sender, recipient, amount) ==
    [sender |-> sender, recipient |-> recipient, amount |-> amount]

\* repr of a Transaction object: the class defines none, so the default
\* "<... object at 0x..>" is used, abbreviated to "<" address ">"
ReprTransaction(addr) == <<60>> \o Str(addr) \o <<62>>

RECURSIVE JoinRepr(_)
\* ", ".join(repr(t) for t in transactions)
JoinRepr(transactions) ==
    IF transactions = <<>> THEN <<>>
    ELSE IF Len(transactions) = 1 THEN ReprTransaction(transactions[1])
    ELSE ReprTransaction(Head(transactions)) \o <<44, 32>> \o JoinRepr(Tail(transactions))

\* str(self.transactions)
StrTransactions(transactions) == <<91>> \o JoinRepr(transactions) \o <<93>>

\* Block.calculate_hash
calculate_hash(b) ==
    sha256_hexdigest(Str(b.index) \o b.previous_hash \o Str(b.timestamp)
                     \o StrTransactions(b.transactions) \o Str(b.proof))

\* Block(index, previous_hash, timestamp, transactions, proof): hash is None,
\* so the constructor stores calculate_hash() of the fields it was given
Block(index, previous_hash, timestamp, transactions, proof) ==
    LET b == [index |-> index, previous_hash |-> previous_hash, timestamp |-> timestamp,
              transactions |-> transactions, proof |-> proof, hash |-> <<>>]
    IN  [b EXCEPT !.hash = calculate_hash(b)]

RECURSIVE mine_block_short_prefix(_, _)
\* mine_block testing one character less than difficulty
mine_block_short_prefix(b, d) ==
    IF Prefix(calculate_hash(b), d - 1) # Zeros(d - 1)
    THEN mine_block_short_prefix([b EXCEPT !.proof = b.proof + 1], d)
    ELSE b

RECURSIVE mine_block_increment_first(_, _)
\* mine_block incrementing proof before its first test
mine_block_increment_first(b, d) ==
    LET next == [b EXCEPT !.proof = b.proof + 1]
    IN  IF Prefix(calculate_hash(next), d) # Zeros(d)
        THEN mine_block_increment_first(next, d)
        ELSE next

RECURSIVE mine_block(_, _)
\* Block.mine_block(difficulty): only proof is assigned
mine_block(b, d) ==
    IF Prefix(calculate_hash(b), d) # Zeros(d)
    THEN mine_block([b EXCEPT !.proof = b.proof + 1], d)
    ELSE b

create_genesis_block(ts) == Block(0, <<48>>, ts, <<>>, 0)

get_latest_block == chain[Len(chain)]

RECURSIVE is_chain_valid_from(_, _)
\* Blockchain.is_chain_valid of defi.py: the loop "for i in range(1, n)", from
\* i on; Python's chain[i] is chain[i + 1]
is_chain_valid_from(i, n) ==
    IF i >= n THEN TRUE
    ELSE LET current_block == chain[i + 1]
             previous_block == chain[i]
         IN  IF current_block.hash # calculate_hash(current_block)
             THEN FALSE
             ELSE IF current_block.previous_hash # previous_block.hash
             THEN FALSE
             ELSE is_chain_valid_from(i + 1, n)

\* is_chain_valid with range(1, len(self.chain) - 1): the latest block is
\* not looked at
is_chain_valid_but_latest == is_chain_valid_from(1, Len(chain) - 1)

\* Blockchain.is_chain_valid of defi.py
is_chain_valid == is_chain_valid_from(1, Len(chain))

\* the inner loop's body with "elif" for its second test
balance_step_elif(balance, trans, address) ==
    IF trans.recipient = address THEN balance + trans.amount
    ELSE IF trans.sender = address THEN balance - trans.amount
    ELSE balance

\* Blockchain.get_balance_of_address: the body of the inner loop
balance_step(balance, trans, address) ==
    LET credited == IF trans.recipient = address THEN balance + trans.amount ELSE balance
    IN  IF trans.sender = address THEN credited - trans.amount ELSE credited

RECURSIVE balance_block(_, _, _)
\* Blockchain.get_balance_of_address: "for trans in block.transactions"
balance_block(balance, transactions, address) ==
    IF transactions = <<>> THEN balance
    ELSE balance_block(balance_step(balance, heap[Head(transactions)], address),
                       Tail(transactions), address)

RECURSIVE balance_chain(_, _, _)
\* Blockchain.get_balance_of_address: "for block in self.chain"
balance_chain(balance, blocks, address) ==
    IF blocks = <<>> THEN balance
    ELSE balance_chain(balance_block(balance, Head(blocks).transactions, address),
                       Tail(blocks), address)

\* get_balance_of_address replaying the buffer after the chain
get_balance_with_pending(address) ==
    balance_block(balance_chain(0, chain, address), pending_transactions, address)

\* Blockchain.get_balance_of_address(address)
get_balance_of_address(address) == balance_chain(0, chain, address)

\* id() of the next object constructed: no Transaction is freed while the
\* ledger is alive, so a new one never takes the address of an older one
NewAddr == Cardinality(DOMAIN heap) + 1

\* the Transaction objects callers construct, the reward objects apart
CallerObjs == {a \in DOMAIN heap : heap[a].sender # None}

\* list.append(addr) on the list object id, seen through every block whose
\* transactions attribute is that object
list_append(id, addr) ==
    [i \in 1..Len(chain) |->
        IF tx_list_ids.chain[i] = id
        THEN [chain[i] EXCEPT !.transactions = Append(@, addr)]
        ELSE chain[i]]

\* id() of the list "[]" builds next: lists are not freed either
NewListId == Len(chain) + 2

\* Blockchain.add_transaction(transaction), the caller passing a Transaction
\* it has just constructed
add_transaction_new(sender, recipient, amount) ==
    /\ program = "defi"
    /\ Len(pending_transactions) < MaxPending
    /\ Cardinality(DOMAIN heap) < MaxObjs
    /\ heap' = (NewAddr :> Transaction(sender, recipient, amount)) @@ heap
    /\ pending_transactions' = Append(pending_transactions, NewAddr)
    /\ chain' = list_append(tx_list_ids.pending, NewAddr)
    /\ UNCHANGED <<tx_list_ids, candidate, last_call, liquidity_pool, program, app_chain, tampered>>

\* Blockchain.add_transaction(transaction), the caller passing a Transaction
\* it constructed earlier
add_transaction_held(addr) ==
    /\ program = "defi"
    /\ Len(pending_transactions) < MaxPending
    /\ pending_transactions' = Append(pending_transactions, addr)
    /\ chain' = list_append(tx_list_ids.pending, addr)
    /\ UNCHANGED <<tx_list_ids, candidate, last_call, liquidity_pool, program, app_chain, heap, tampered>>

AddTransaction ==
    \/ \E t \in CallerTransactions :
           add_transaction_new(t.sender, t.recipient, t.amount)
    \/ \E addr \in CallerObjs : add_transaction_held(addr)

\* mine_pending_transactions linking the new block to chain[0]
mine_pending_link_first(miner_address, ts) ==
    /\ program = "defi"
    /\ Cardinality(DOMAIN heap) < MaxObjs
    /\ LET reward_transaction == Transaction(None, miner_address, mining_reward)
           pending == Append(pending_transactions, NewAddr)
           block == Block(Len(chain), chain[1].hash, ts, pending, 0)
           mined == mine_block(block, difficulty)
       IN  /\ heap' = (NewAddr :> reward_transaction) @@ heap
           /\ chain' = Append(list_append(tx_list_ids.pending, NewAddr), mined)
           /\ pending_transactions' = <<>>
           /\ tx_list_ids' = [chain |-> Append(tx_list_ids.chain, tx_list_ids.pending),
                              pending |-> NewListId]
    /\ UNCHANGED <<candidate, last_call, liquidity_pool, program, app_chain, tampered>>

\* mine_pending_transactions building the block before the reward is appended
mine_pending_reward_late(miner_address, ts) ==
    /\ program = "defi"
    /\ Cardinality(DOMAIN heap) < MaxObjs
    /\ LET reward_transaction == Transaction(None, miner_address, mining_reward)
           block == Block(Len(chain), get_latest_block.hash, ts, pending_transactions, 0)
           mined == mine_block(block, difficulty)
       IN  /\ heap' = (NewAddr :> reward_transaction) @@ heap
           /\ chain' = Append(list_append(tx_list_ids.pending, NewAddr), mined)
           /\ pending_transactions' = <<>>
           /\ tx_list_ids' = [chain |-> Append(tx_list_ids.chain, tx_list_ids.pending),
                              pending |-> NewListId]
    /\ UNCHANGED <<candidate, last_call, liquidity_pool, program, app_chain, tampered>>

\* mine_pending_transactions ending with self.pending_transactions.clear():
\* the buffer stays the list object the new block holds
mine_pending_clear_in_place(miner_address, ts) ==
    /\ program = "defi"
    /\ Cardinality(DOMAIN heap) < MaxObjs
    /\ LET reward_transaction == Transaction(None, miner_address, mining_reward)
           pending == Append(pending_transactions, NewAddr)
           block == Block(Len(chain), get_latest_block.hash, ts, pending, 0)
           mined == mine_block(block, difficulty)
           appended == Append(list_append(tx_list_ids.pending, NewAddr), mined)
           ids == Append(tx_list_ids.chain, tx_list_ids.pending)
       IN  /\ heap' = (NewAddr :> reward_transaction) @@ heap
           /\ chain' = [i \in 1..Len(appended) |->
                           IF ids[i] = tx_list_ids.pending
                           THEN [appended[i] EXCEPT !.transactions = <<>>]
                           ELSE appended[i]]
           /\ pending_transactions' = <<>>
           /\ tx_list_ids' = [chain |-> ids, pending |-> tx_list_ids.pending]
    /\ UNCHANGED <<candidate, last_call, liquidity_pool, program, app_chain, tampered>>

\* mine_pending_transactions without its last line: the buffer is not reset
mine_pending_keep_buffer(miner_address, ts) ==
    /\ program = "defi"
    /\ Cardinality(DOMAIN heap) < MaxObjs
    /\ LET reward_transaction == Transaction(None, miner_address, mining_reward)
           pending == Append(pending_transactions, NewAddr)
           block == Block(Len(chain), get_latest_block.hash, ts, pending, 0)
           mined == mine_block(block, difficulty)
       IN  /\ heap' = (NewAddr :> reward_transaction) @@ heap
           /\ chain' = Append(list_append(tx_list_ids.pending, NewAddr), mined)
           /\ pending_transactions' = SubSeq(pending, Len(pending), Len(pending))
           /\ tx_list_ids' = [chain |-> Append(tx_list_ids.chain, tx_list_ids.pending),
                              pending |-> NewListId]
    /\ UNCHANGED <<candidate, last_call, liquidity_pool, program, app_chain, tampered>>

\* Blockchain.mine_pending_transactions(miner_address)
mine_pending_transactions(miner_address, ts) ==
    /\ program = "defi"
    /\ Cardinality(DOMAIN heap) < MaxObjs
    /\ LET reward_transaction == Transaction(None, miner_address, mining_reward)
           pending == Append(pending_transactions, NewAddr)
           block == Block(Len(chain), get_latest_block.hash, ts, pending, 0)
           mined == mine_block(block, difficulty)
       IN  /\ heap' = (NewAddr :> reward_transaction) @@ heap
           /\ chain' = Append(list_append(tx_list_ids.pending, NewAddr), mined)
           /\ pending_transactions' = <<>>
           /\ tx_list_ids' = [chain |-> Append(tx_list_ids.chain, tx_list_ids.pending),
                              pending |-> NewListId]
    /\ UNCHANGED <<candidate, last_call, liquidity_pool, program, app_chain, tampered>>

MinePendingTransactions ==
    \E miner_address \in Miners, ts \in TimeStamps :
        mine_pending_transactions(miner_address, ts)

(***************************************************************************)
(* A Block a caller built, mined directly: Block.mine_block(difficulty)    *)
(* and Blockchain.proof_of_work(block).                                    *)
(***************************************************************************)
\* what last_call holds: the operation, its argument, what it returned or
\* reported
Call(op, arg, result) == [op |-> op, arg |-> arg, result |-> result]

NoCall == Call("none", 0, 0)

RECURSIVE proof_of_work_loop(_)
\* Blockchain.proof_of_work: the while loop, at self.difficulty
proof_of_work_loop(b) ==
    IF Prefix(calculate_hash(b), difficulty) # Zeros(difficulty)
    THEN proof_of_work_loop([b EXCEPT !.proof = b.proof + 1])
    ELSE b

\* Blockchain.proof_of_work(block): block as it is left; block.proof is
\* what is returned
proof_of_work(b) == proof_of_work_loop([b EXCEPT !.proof = 0])

\* block.mine_block(d) on the caller's Block
MineBlock ==
    \E d \in Difficulties :
        /\ program = "mine"
        /\ candidate' = mine_block(candidate, d)
        /\ last_call' = Call("mine_block", d, 0)
        /\ UNCHANGED <<program, app_chain, chain, pending_transactions, heap,
                       tampered, tx_list_ids, liquidity_pool>>

\* Blockchain.proof_of_work(block) on the caller's Block
ProofOfWork ==
    /\ program = "mine"
    /\ candidate' = proof_of_work(candidate)
    /\ last_call' = Call("proof_of_work", 0, proof_of_work(candidate).proof)
    /\ UNCHANGED <<program, app_chain, chain, pending_transactions, heap,
                   tampered, tx_list_ids, liquidity_pool>>

(***************************************************************************)
(* LendingPool.                                                            *)
(***************************************************************************)
\* LendingPool.deposit(amount)
deposit(amount) ==
    /\ program = "pool"
    /\ liquidity_pool + amount <= MaxPool
    /\ liquidity_pool + amount >= 0 - MaxPool
    /\ liquidity_pool' = liquidity_pool + amount
    /\ last_call' = Call("deposit", amount, 0)
    /\ UNCHANGED <<program, app_chain, chain, pending_transactions, heap,
                   tampered, tx_list_ids, candidate>>

\* borrow with the comparison self.liquidity_pool > amount
borrow_strict(amount) ==
    /\ program = "pool"
    /\ liquidity_pool - amount <= MaxPool
    /\ IF liquidity_pool > amount
       THEN /\ liquidity_pool' = liquidity_pool - amount
            /\ last_call' = Call("borrow", amount, 1)
       ELSE /\ liquidity_pool' = liquidity_pool
            /\ last_call' = Call("borrow", amount, 0)
    /\ UNCHANGED <<program, app_chain, chain, pending_transactions, heap,
                   tampered, tx_list_ids, candidate>>

\* LendingPool.borrow(amount); result 1 for "Borrow of .. made", 0 for
\* "Insufficient funds"
borrow(amount) ==
    /\ program = "pool"
    /\ liquidity_pool - amount <= MaxPool
    /\ IF liquidity_pool >= amount
       THEN /\ liquidity_pool' = liquidity_pool - amount
            /\ last_call' = Call("borrow", amount, 1)
       ELSE /\ liquidity_pool' = liquidity_pool
            /\ last_call' = Call("borrow", amount, 0)
    /\ UNCHANGED <<program, app_chain, chain, pending_transactions, heap,
                   tampered, tx_list_ids, candidate>>

Deposit == \E amount \in PoolAmounts : deposit(amount)

Borrow == \E amount \in PoolAmounts : borrow(amount)

(***************************************************************************)
(* Writes to a block already in the chain, from outside the ledger: one    *)
(* content field of one non-genesis block gets another value, hash and     *)
(* previous_hash are left alone.                                           *)
(***************************************************************************)
app_tamper(i, field, value) ==
    /\ program = "app"
    /\ ~tampered
    /\ i \in 2..Len(app_chain)
    /\ app_chain[i][field] # value
    /\ app_chain' = [app_chain EXCEPT ![i][field] = value]
    /\ tampered' = TRUE
    /\ UNCHANGED <<tx_list_ids, candidate, last_call, liquidity_pool, program, chain, pending_transactions, heap>>

TamperAppBlock ==
    \E i \in 2..Len(app_chain) :
        \/ \E v \in Indices : app_tamper(i, "index", v)
        \/ \E v \in TimeStamps : app_tamper(i, "timestamp", v)
        \/ \E v \in Datas : app_tamper(i, "data", v)

tamper_block(i, field, value) ==
    /\ program = "defi"
    /\ ~tampered
    /\ i \in 2..Len(chain)
    /\ chain[i][field] # value
    /\ chain' = [chain EXCEPT ![i][field] = value]
    /\ tampered' = TRUE
    /\ UNCHANGED <<tx_list_ids, candidate, last_call, liquidity_pool, program, app_chain, pending_transactions, heap>>

TamperBlock ==
    \E i \in 2..Len(chain) :
        \/ \E v \in Indices : tamper_block(i, "index", v)
        \/ \E v \in TimeStamps : tamper_block(i, "timestamp", v)
        \/ \E v \in {0, chain[i].proof + 1} : tamper_block(i, "proof", v)

tamper_transaction(i, k, field, value) ==
    /\ program = "defi"
    /\ ~tampered
    /\ i \in 2..Len(chain)
    /\ k \in 1..Len(chain[i].transactions)
    /\ heap[chain[i].transactions[k]][field] # value
    /\ heap' = [heap EXCEPT ![chain[i].transactions[k]][field] = value]
    /\ tampered' = TRUE
    /\ UNCHANGED <<tx_list_ids, candidate, last_call, liquidity_pool, program, app_chain, chain, pending_transactions>>

TamperTransaction ==
    \E i \in 2..Len(chain) :
        \E k \in 1..Len(chain[i].transactions) :
            \/ \E v \in {7} : tamper_transaction(i, k, "amount", v)
            \/ \E v \in {"A", "B"} : tamper_transaction(i, k, "sender", v)
            \/ \E v \in {"A", "B"} : tamper_transaction(i, k, "recipient", v)

(***************************************************************************)
(* The ledgers as constructed, and their operations.                       *)
(***************************************************************************)
Init ==
    /\ program \in {"app", "defi", "mine", "pool"}
    /\ \E ts \in TimeStamps :
          /\ app_chain = <<app_create_genesis_block(ts)>>
          /\ chain = <<create_genesis_block(ts)>>
    /\ pending_transactions = <<>>
    /\ heap = <<>>
    /\ tampered = FALSE
    /\ candidate \in
          IF program = "mine"
          THEN {Block(index, <<48>>, ts, <<>>, proof) :
                    index \in CandidateIndices, ts \in TimeStamps, proof \in StartProofs}
          ELSE {Block(0, <<48>>, 1, <<>>, 0)}
    /\ tx_list_ids = [chain |-> <<1>>, pending |-> 2]
    /\ liquidity_pool = 0
    /\ last_call = NoCall

Next ==
    \/ AddBlock
    \/ AddTransaction
    \/ MinePendingTransactions
    \/ MineBlock
    \/ ProofOfWork
    \/ Deposit
    \/ Borrow

Spec == Init /\ [][Next]_vars

Tamper == TamperAppBlock \/ TamperBlock \/ TamperTransaction

\* the ledger is built by its operations, then one field is written
NextTamper == (~tampered /\ Next) \/ Tamper

SpecTamper == Init /\ [][NextTamper]_vars

(***************************************************************************)
(* Writes to the stored hash of a block in the chain, the genesis block    *)
(* included: another value, or the digest of the block's current fields.   *)
(* is_chain_valid does not read the buffer, so the extended variant's      *)
(* chain is written while the buffer is empty.                             *)
(***************************************************************************)
app_write_hash(i, value) ==
    /\ program = "app"
    /\ ~tampered
    /\ i \in 1..Len(app_chain)
    /\ app_chain[i].hash # value
    /\ app_chain' = [app_chain EXCEPT ![i].hash = value]
    /\ tampered' = TRUE
    /\ UNCHANGED <<tx_list_ids, candidate, last_call, liquidity_pool, program, chain, pending_transactions, heap>>

WriteAppHash ==
    \E i \in 1..Len(app_chain) :
        \E v \in {<<120>>, app_calculate_hash(app_chain[i].index, app_chain[i].previous_hash,
                                              app_chain[i].timestamp, app_chain[i].data)} :
            app_write_hash(i, v)

write_hash(i, value) ==
    /\ program = "defi"
    /\ ~tampered
    /\ pending_transactions = <<>>
    /\ i \in 1..Len(chain)
    /\ chain[i].hash # value
    /\ chain' = [chain EXCEPT ![i].hash = value]
    /\ tampered' = TRUE
    /\ UNCHANGED <<tx_list_ids, candidate, last_call, liquidity_pool, program, app_chain, pending_transactions, heap>>

WriteHash ==
    \E i \in 1..Len(chain) :
        \E v \in {<<120>>, calculate_hash(chain[i])} : write_hash(i, v)

\* the ledger is built by its operations, then the hash of one block is written
NextWrite == (~tampered /\ Next) \/ WriteAppHash \/ WriteHash

SpecWrite == Init /\ [][NextWrite]_vars

(***************************************************************************)
(* Definitions the properties are stated with.                             *)
(***************************************************************************)
\* the places <<block, position>> of the chain's transactions
TxPositions ==
    {p \in (1..Len(chain)) \X (1..(MaxPending + 1)) :
        p[2] <= Len(chain[p[1]].transactions)}

TxAt(p) == heap[chain[p[1]].transactions[p[2]]]

RECURSIVE SumAmounts(_)
SumAmounts(P) ==
    IF P = {} THEN 0
    ELSE LET p == CHOOSE q \in P : TRUE
         IN  TxAt(p).amount + SumAmounts(P \ {p})

RECURSIVE SumBalances(_)
SumBalances(A) ==
    IF A = {} THEN 0
    ELSE LET a == CHOOSE x \in A : TRUE
         IN  get_balance_of_address(a) + SumBalances(A \ {a})

\* the addresses named by the chain's transactions; None is no address
ChainAddresses ==
    ({TxAt(p).sender : p \in TxPositions} \cup {TxAt(p).recipient : p \in TxPositions})
        \ {None}

\* the blocks mine_pending_transactions appended
MinedBlocks == 2..Len(chain)

(***************************************************************************)
(* C1. Extended variant: after any sequence of add_transaction and         *)
(* mine_pending_transactions calls, is_chain_valid() returns true.         *)
(* As stated; the code violates it as soon as a mined proof is not 0.      *)
(***************************************************************************)
C1_ValidAfterMining == program = "defi" => is_chain_valid

(***************************************************************************)
(* C2. Basic variant: after any sequence of add_block calls with blocks of *)
(* arbitrary index, timestamp, data, previous_hash and hash,               *)
(* is_chain_valid() returns true.                                          *)
(***************************************************************************)
C2_AppValidAfterAddBlock == program = "app" => app_is_chain_valid

\* two blocks were added, the first with an index that is not its position
C2_Witness ==
    /\ program = "app"
    /\ Len(app_chain) = 3
    /\ app_chain[2].index = 7
    /\ app_chain[3].data = <<98, 49>>

(***************************************************************************)
(* C3. Extended variant: every block of the chain, genesis and mined,      *)
(* stores the digest of its own current fields, proof included.            *)
(* As stated; the code violates it: mining moves proof, not hash.          *)
(***************************************************************************)
C3_StoredHashIsDigest ==
    \A i \in 1..Len(chain) : chain[i].hash = calculate_hash(chain[i])

(***************************************************************************)
(* C4. Extended variant: the stored hash of every block appended by        *)
(* mine_pending_transactions starts with `difficulty` characters '0'.      *)
(* As stated; the code violates it: the stored hash is that of proof 0.    *)
(***************************************************************************)
C4_StoredHashMeetsDifficulty ==
    \A i \in MinedBlocks : Prefix(chain[i].hash, difficulty) = Zeros(difficulty)

(***************************************************************************)
(* C5. Tamper evidence: once a single content field of a non-genesis       *)
(* block has been changed, hash and previous_hash left alone,              *)
(* is_chain_valid() returns false.                                         *)
(* As stated; the code violates it for the fields of a transaction.        *)
(***************************************************************************)
C5_TamperDetected ==
    tampered => IF program = "app" THEN ~app_is_chain_valid ELSE ~is_chain_valid

C7_MinePost ==
    LET n == Len(chain)
        new == chain'[n + 1]
        reward == new.transactions[Len(new.transactions)]
    IN  /\ Len(chain') = n + 1
        /\ SubSeq(chain', 1, n) = chain
        /\ \A a \in DOMAIN heap : heap'[a] = heap[a]
        /\ new.index = n
        /\ new.previous_hash = chain[n].hash
        /\ Len(new.transactions) = Len(pending_transactions) + 1
        /\ SubSeq(new.transactions, 1, Len(pending_transactions)) = pending_transactions
        /\ reward \notin DOMAIN heap
        /\ \E miner \in Miners : heap'[reward] = Transaction(None, miner, mining_reward)
        /\ pending_transactions' = <<>>

C7_MineStep == [][chain' # chain => C7_MinePost]_vars

\* a block was mined from a buffer of two transactions
C7_Witness ==
    /\ program = "defi"
    /\ Len(chain) >= 2
    /\ Len(chain[2].transactions) = 3
    /\ heap[chain[2].transactions[3]].sender = None
    /\ pending_transactions = <<>>

(***************************************************************************)
(* C8. Balance conservation: the balances of all addresses named by the    *)
(* chain's transactions add up to the amounts of the chain's transactions  *)
(* without a sender.                                                       *)
(***************************************************************************)
C8_Conservation ==
    SumBalances(ChainAddresses) = SumAmounts({p \in TxPositions : TxAt(p).sender = None})

\* the chain holds a self-transfer and an overdrawn address
C8_Witness ==
    /\ Len(chain) >= 2
    /\ \E p \in TxPositions : TxAt(p).sender = TxAt(p).recipient
    /\ \E a \in ChainAddresses : get_balance_of_address(a) < 0

(***************************************************************************)
(* C9. get_balance_of_address(a) is the amounts received by a minus the    *)
(* amounts sent by a over the transactions of the chain; it is 0 on a      *)
(* genesis-only chain and for an address in no chain transaction; the      *)
(* buffer does not contribute.                                             *)
(***************************************************************************)
C9_BalanceIsReceivedMinusSent ==
    \A a \in Addresses \cup {None, "Z"} :
        /\ get_balance_of_address(a) =
               SumAmounts({p \in TxPositions : TxAt(p).recipient = a})
               - SumAmounts({p \in TxPositions : TxAt(p).sender = a})
        /\ Len(chain) = 1 => get_balance_of_address(a) = 0
        /\ a \notin ChainAddresses \cup {None} => get_balance_of_address(a) = 0

\* a self-transfer is in the chain, B has a balance, and the buffer holds a
\* transaction that pays B
C9_Witness ==
    /\ \E p \in TxPositions : TxAt(p).sender = TxAt(p).recipient
    /\ get_balance_of_address("B") > 0
    /\ pending_transactions # <<>>
    /\ heap[pending_transactions[1]].recipient = "B"

(***************************************************************************)
(* C10. Two blocks with equal index, previous_hash, timestamp and proof    *)
(* whose transaction sequences are structurally identical have the same    *)
(* calculate_hash().                                                       *)
(* As stated; the code violates it for distinct Transaction objects.       *)
(***************************************************************************)
TxSeqs == {<<>>} \cup {<<a>> : a \in DOMAIN heap} \cup {<<a, b>> : a, b \in DOMAIN heap}

StructurallyIdentical(s1, s2) ==
    /\ Len(s1) = Len(s2)
    /\ \A k \in 1..Len(s1) : heap[s1[k]] = heap[s2[k]]

C10_ContentDeterminedDigest ==
    \A s1, s2 \in TxSeqs :
        StructurallyIdentical(s1, s2) =>
            calculate_hash(Block(1, <<48>>, 1, s1, 0)) = calculate_hash(Block(1, <<48>>, 1, s2, 0))

(***************************************************************************)
(* C11. Whenever mine_block(d) has returned, whatever d and the proof it   *)
(* started from, the digest recomputed from the block's fields starts with *)
(* d characters '0'; so does it after proof_of_work, and for the blocks    *)
(* mine_pending_transactions mined, at the ledger's difficulty.            *)
(***************************************************************************)
MeetsDifficulty(b, d) == Prefix(calculate_hash(b), d) = Zeros(d)

C11_MinedDigestMeetsDifficulty ==
    /\ last_call.op = "mine_block" => MeetsDifficulty(candidate, last_call.arg)
    /\ last_call.op = "proof_of_work" => MeetsDifficulty(candidate, difficulty)
    /\ \A i \in MinedBlocks : MeetsDifficulty(chain[i], difficulty)

\* mine_block(2) returned and had to move the proof
C11_Witness ==
    /\ program = "mine"
    /\ last_call = Call("mine_block", 2, 0)
    /\ candidate.hash # calculate_hash(candidate)

(***************************************************************************)
(* C16. mine_block(d) from proof p0 ends at the smallest p >= p0 whose     *)
(* digest has d leading '0', every other field (hash included) unchanged;  *)
(* for d = 0 the proof stays p0. proof_of_work(block) returns the smallest *)
(* such p >= 0 at the ledger's difficulty, whatever the block's proof was. *)
(***************************************************************************)
WithProof(b, p) == [b EXCEPT !.proof = p]

C16_MineBlockPost(d) ==
    /\ candidate'.proof >= candidate.proof
    /\ MeetsDifficulty(candidate', d)
    /\ \A p \in candidate.proof..(candidate'.proof - 1) :
           ~MeetsDifficulty(WithProof(candidate, p), d)
    /\ WithProof(candidate', candidate.proof) = candidate
    /\ d = 0 => candidate'.proof = candidate.proof

C16_ProofOfWorkPost(returned) ==
    /\ returned = candidate'.proof
    /\ MeetsDifficulty(candidate', difficulty)
    /\ \A p \in 0..(returned - 1) : ~MeetsDifficulty(WithProof(candidate, p), difficulty)
    /\ WithProof(candidate', candidate.proof) = candidate

C16_MiningIsMinimal ==
    [][/\ last_call'.op = "mine_block" => C16_MineBlockPost(last_call'.arg)
       /\ last_call'.op = "proof_of_work" => C16_ProofOfWorkPost(last_call'.result)]_vars

\* proof_of_work returned a proof below the one the block had
C16_Witness ==
    /\ program = "mine"
    /\ last_call.op = "proof_of_work"
    /\ last_call.result > 0
    /\ last_call.result < 40
    /\ candidate.hash = calculate_hash(WithProof(candidate, 40))

(***************************************************************************)
(* C12. Between ledger operations a reward transaction (sender None) is    *)
(* never in the buffer and is always inside a block of the chain; the      *)
(* balance of an address moves only in the step that appends a block, and  *)
(* then by the buffered transfers plus, for the miner, mining_reward.      *)
(***************************************************************************)
C12_RewardOnlyInChain ==
    /\ \A k \in 1..Len(pending_transactions) : heap[pending_transactions[k]].sender # None
    /\ \A a \in DOMAIN heap :
           heap[a].sender = None => \E p \in TxPositions : chain[p[1]].transactions[p[2]] = a

C12_BalanceStep ==
    \A a \in Addresses :
        IF chain' = chain
        THEN get_balance_of_address(a)' = get_balance_of_address(a)
        ELSE LET new == chain'[Len(chain')]
                 reward == heap'[new.transactions[Len(new.transactions)]]
             IN  get_balance_of_address(a)' - get_balance_of_address(a) =
                     balance_block(0, pending_transactions, a)
                     + (IF reward.recipient = a THEN mining_reward ELSE 0)

C12_RewardVisibility == [](C12_RewardOnlyInChain) /\ [][C12_BalanceStep]_vars

\* the miner was credited once and transfers wait in the buffer
C12_Witness ==
    /\ Len(chain) = 2
    /\ get_balance_of_address("M") = mining_reward
    /\ Len(pending_transactions) = 2

(***************************************************************************)
(* C13. Append-only permanence: in every step of either ledger the chain   *)
(* does not get shorter and every block already in it keeps its position   *)
(* and its fields, its transaction sequence and the fields of its          *)
(* transactions included.                                                  *)
(***************************************************************************)
C13_ChainKept ==
    /\ Len(chain') >= Len(chain)
    /\ SubSeq(chain', 1, Len(chain)) = chain
    /\ \A p \in TxPositions : heap'[chain[p[1]].transactions[p[2]]] = TxAt(p)
    /\ Len(app_chain') >= Len(app_chain)
    /\ SubSeq(app_chain', 1, Len(app_chain)) = app_chain

C14_BorrowStep ==
    last_call'.op = "borrow" =>
        IF last_call'.arg <= liquidity_pool
        THEN /\ liquidity_pool' = liquidity_pool - last_call'.arg
             /\ last_call'.result = 1
        ELSE /\ liquidity_pool' = liquidity_pool
             /\ last_call'.result = 0

C14_Borrow == [][C14_BorrowStep]_vars

\* the pool holds 500 and the last call, borrow(600), reported insufficiency
C14_Witness ==
    /\ program = "pool"
    /\ liquidity_pool = 500
    /\ last_call = Call("borrow", 600, 0)

(***************************************************************************)
(* C15. is_chain_valid() returns true exactly when every block after the   *)
(* first stores the digest of its own current fields as hash and the       *)
(* stored hash of the block before it as previous_hash.  The genesis       *)
(* block's hash is not compared with a recomputation and the difficulty    *)
(* prefix plays no part.  The result is a boolean in every state, written  *)
(* chains included.                                                        *)
(***************************************************************************)
C15_AppBlockChecks(i) ==
    /\ app_chain[i].hash = app_calculate_hash(app_chain[i].index, app_chain[i].previous_hash,
                                              app_chain[i].timestamp, app_chain[i].data)
    /\ app_chain[i].previous_hash = app_chain[i - 1].hash

C15_BlockChecks(i) ==
    /\ chain[i].hash = calculate_hash(chain[i])
    /\ chain[i].previous_hash = chain[i - 1].hash

C15_ValidityIsPairwise ==
    /\ app_is_chain_valid \in BOOLEAN
    /\ is_chain_valid \in BOOLEAN
    /\ app_is_chain_valid <=> \A i \in 2..Len(app_chain) : C15_AppBlockChecks(i)
    /\ is_chain_valid <=> \A i \in 2..Len(chain) : C15_BlockChecks(i)

\* every block after the first stores its own digest, one link is broken,
\* and the chain is found invalid
C15_Witness ==
    /\ program = "defi"
    /\ Len(chain) >= 2
    /\ \A i \in 2..Len(chain) : chain[i].hash = calculate_hash(chain[i])
    /\ \E i \in 2..Len(chain) : chain[i].previous_hash # chain[i - 1].hash
    /\ ~is_chain_valid

(***************************************************************************)
(* C17. Index equals position: in every state reached through the append   *)
(* operations, the block at position i of the chain (from 0) has index i,   *)
(* in both variants, whatever index the caller of add_block gave the block. *)
(* As stated; add_block of app.py keeps the caller's index.                 *)
(***************************************************************************)
C17_IndexIsPosition ==
    /\ \A i \in 1..Len(app_chain) : app_chain[i].index = i - 1
    /\ \A i \in 1..Len(chain) : chain[i].index = i - 1

(***************************************************************************)
(* C18. The genesis block of the basic variant has index 0, previous_hash  *)
(* "0" and, as hash, the digest calculate_hash(index, previous_hash,       *)
(* timestamp, data) of its own fields.                                     *)
(* As stated; create_genesis_block of app.py stores the text "0" as hash.  *)
(***************************************************************************)
C18_GenesisHashIsDigest ==
    /\ app_chain[1].index = 0
    /\ app_chain[1].previous_hash = <<48>>
    /\ app_chain[1].hash = app_calculate_hash(app_chain[1].index, app_chain[1].previous_hash,
                                              app_chain[1].timestamp, app_chain[1].data)

(***************************************************************************)
(* C19. The lending pool's counter is never negative, whatever integer     *)
(* amounts deposit and borrow are called with.                             *)
(* As stated; deposit adds a negative amount as it adds any other.         *)
(***************************************************************************)
C19_PoolNonNegative == liquidity_pool >= 0

(***************************************************************************)
(* C20. The text calculate_hash feeds to SHA-256 is injective in the block *)
(* fields: a field tuple that differs from the fields of a block in at     *)
(* least one field has another pre-image, hence (the digest being free of  *)
(* collisions) another digest.  Compared with each block of the chain are  *)
(* the tuples that move a character across the border of two adjacent      *)
(* fields.                                                                 *)
(* As stated; the fields are concatenated without a delimiter.              *)
(***************************************************************************)
C20_Rest(s) == IF s = <<>> THEN s ELSE Tail(s)

C20_AppFields(b) == <<b.index, b.previous_hash, b.timestamp, b.data>>

C20_AppNeighbours(b) ==
    {<<i, p, t, d>> : i \in {b.index, 10 * b.index},
                      p \in {b.previous_hash, C20_Rest(b.previous_hash)},
                      t \in {b.timestamp, 10 * b.timestamp + 1},
                      d \in {b.data, C20_Rest(b.data)}}

C20_Neighbours(b) ==
    {[b EXCEPT !.index = i, !.previous_hash = p] :
        i \in {b.index, 10 * b.index},
        p \in {b.previous_hash, C20_Rest(b.previous_hash)}}

C20_PreimageInjective ==
    /\ \A k \in 1..Len(app_chain) :
          \A f \in C20_AppNeighbours(app_chain[k]) :
              f # C20_AppFields(app_chain[k]) =>
                  app_calculate_hash(f[1], f[2], f[3], f[4]) #
                      app_calculate_hash(app_chain[k].index, app_chain[k].previous_hash,
                                         app_chain[k].timestamp, app_chain[k].data)
    /\ \A k \in 1..Len(chain) :
          \A b \in C20_Neighbours(chain[k]) :
              b # chain[k] => calculate_hash(b) # calculate_hash(chain[k])

====
